---- MODULE Spec2Model ----
(***************************************************************************)
(* Model of buildenv/jenkins/compare_tap.py: the TAP log section parser,   *)
(* the passing-line filter, the semantic change detector and the report    *)
(* loop of the main workflow.                                              *)
(*                                                                         *)
(* A line of text is the sequence of the code points of its characters     *)
(* (ord(c) of each), so that the regular expressions, str.strip, the       *)
(* substring tests and difflib's SequenceMatcher are computed character by *)
(* character as the code does, on any character of a Python str.           *)
(* A text is the sequence of its lines (the result of text.splitlines()).  *)
(* Similarity scores are integers in hundredths: 88 stands for 0.88.       *)
(***************************************************************************)
EXTENDS Integers, Sequences, FiniteSets

VARIABLES
    pc,              \* position of the program
    text,            \* parse_log_sections: lines of the text being parsed
    pos,             \* parse_log_sections: index of the next line of the loop
    current_suite,   \* parse_log_sections: <<>> is None, <<name>> an open suite
    current_lines,   \* parse_log_sections: lines accumulated for the open suite
    sections,        \* parse_log_sections: the dict built, in insertion order
    new_sections,    \* main workflow: the parsed sections filtered (lines 221-223)
    lines,           \* filter_ok_tests: the argument
    fpos,            \* filter_ok_tests: index of the next line of the loop
    skip_mode,       \* filter_ok_tests: the skipping flag
    filtered,        \* filter_ok_tests: the list being built
    refiltered,      \* filter_ok_tests applied to its own result
    old_arg,         \* compare_sections: argument old_lines as passed
    new_arg,         \* compare_sections: argument new_lines as passed
    old_lines,       \* compare_sections: old_lines after line 153
    new_lines,       \* compare_sections: new_lines after line 154
    max_scores,      \* compare_sections: best score of each new line read so far
    max_indices,     \* compare_sections: index of the best old line of each
    changes,         \* compare_sections: the change list being built
    encode_calls,    \* number of calls of model.encode made
    noise,           \* main workflow: changes classified as noise
    real,            \* main workflow: changes classified as real
    output           \* main workflow: the strings written for the suite

parseVars == <<text, pos, current_suite, current_lines, sections, new_sections>>
filterVars == <<lines, fpos, skip_mode, filtered, refiltered>>
compareVars == <<old_arg, new_arg, old_lines, new_lines, max_scores, max_indices,
                 changes, encode_calls, noise, real, output>>
vars == <<pc, parseVars, filterVars, compareVars>>

(***************************************************************************)
(* Bounds of the model.                                                    *)
(***************************************************************************)
MaxText == 3
MaxLines == 4
MaxOld == 2
MaxNew == 2

(***************************************************************************)
(* Characters and strings.                                                 *)
(***************************************************************************)
\* The printable ASCII characters from "#" (35) to "_" (95).
AsciiUpper ==
    <<"#", "$", "%", "&", "'", "(", ")", "*", "+", ",", "-", ".", "/",
      "0", "1", "2", "3", "4", "5", "6", "7", "8", "9", ":", ";", "<", "=", ">", "?",
      "@", "A", "B", "C", "D", "E", "F", "G", "H", "I", "J", "K", "L", "M", "N", "O",
      "P", "Q", "R", "S", "T", "U", "V", "W", "X", "Y", "Z", "[", "\\", "]", "^", "_">>

\* The printable ASCII characters from "a" (97) to "~" (126).
AsciiLower ==
    <<"a", "b", "c", "d", "e", "f", "g", "h", "i", "j", "k", "l", "m", "n", "o",
      "p", "q", "r", "s", "t", "u", "v", "w", "x", "y", "z", "{", "|", "}", "~">>

\* ord(c) of the tab, the space or a character of the two tables.
Ord(c) ==
    IF c = "\t" THEN 9
    ELSE IF c = " " THEN 32
    ELSE IF \E k \in 1..Len(AsciiUpper) : AsciiUpper[k] = c
         THEN 34 + (CHOOSE k \in 1..Len(AsciiUpper) : AsciiUpper[k] = c)
         ELSE 96 + (CHOOSE k \in 1..Len(AsciiLower) : AsciiLower[k] = c)

\* The string of the characters s, as the sequence of its code points.
Str(s) == [k \in 1..Len(s) |-> Ord(s[k])]

\* The characters str.strip() strips and \s matches in a str pattern
\* (str.isspace()): tab, line feed, vertical tab, form feed, carriage return,
\* the separators 28-31, space, next line, no-break space, and the Unicode
\* spaces and line and paragraph separators.
Whitespace ==
    {9, 10, 11, 12, 13, 28, 29, 30, 31, 32, 133, 160, 5760}
    \cup (8192..8202) \cup {8232, 8233, 8239, 8287, 12288}

IsSpace(c) == c \in Whitespace

\* The code points of the digits zero that \d matches in a str pattern: every
\* decimal digit of Unicode (category Nd, Unicode 14), each zero followed by
\* its digits one to nine.
DigitZeros ==
    {48, 1632, 1776, 1984, 2406, 2534, 2662, 2790, 2918, 3046, 3174, 3302, 3430,
     3558, 3664, 3792, 3872, 4160, 4240, 6112, 6160, 6470, 6608, 6784, 6800, 6992,
     7088, 7232, 7248, 42528, 43216, 43264, 43472, 43504, 43600, 44016, 65296,
     66720, 68912, 69734, 69872, 69942, 70096, 70384, 70736, 70864, 71248, 71360,
     71472, 71904, 72016, 72784, 73040, 73120, 92768, 92864, 93008, 120782,
     120792, 120802, 120812, 120822, 123200, 123632, 125264, 130032}

IsDigit(c) ==
    IF c < 128 THEN 48 <= c /\ c <= 57
    ELSE \E z \in DigitZeros : z <= c /\ c <= z + 9

Min(S) == CHOOSE x \in S : \A y \in S : x <= y

Max(S) == CHOOSE x \in S : \A y \in S : x >= y

\* str.strip(): the string without its leading and trailing whitespace.
Strip(s) ==
    LET ink == {k \in 1..Len(s) : ~IsSpace(s[k])}
    IN  IF ink = {} THEN <<>> ELSE SubSeq(s, Min(ink), Max(ink))

\* The literal lit occurs in s starting at index k.
LitAt(s, k, lit) ==
    /\ k >= 1
    /\ k + Len(lit) - 1 <= Len(s)
    /\ SubSeq(s, k, k + Len(lit) - 1) = lit

\* lit in s
Contains(s, lit) == \E k \in 1..(Len(s) + 1) : LitAt(s, k, lit)

\* First index at or after k that does not hold whitespace (\s*), Len(s)+1 at the end.
SkipSpace(s, k) ==
    Min({j \in k..(Len(s) + 1) : j = Len(s) + 1 \/ ~IsSpace(s[j])})

\* First index at or after k that does not hold a digit (\d*).
SkipDigits(s, k) ==
    Min({j \in k..(Len(s) + 1) : j = Len(s) + 1 \/ ~IsDigit(s[j])})

\* First index at or after k that holds whitespace (\S*).
SkipNonSpace(s, k) ==
    Min({j \in k..(Len(s) + 1) : j = Len(s) + 1 \/ IsSpace(s[j])})

TestResults == Str(<<"T", "e", "s", "t", " ", "r", "e", "s", "u", "l", "t", "s", ":">>)

DashTestResults == Str(<<"-", " ">>) \o TestResults

TestMarker == Str(<<"T", "E", "S", "T", ":">>)

Dash == Ord("-")

OkHead == Str(<<"o", "k">>)

NotOkHead == Str(<<"n", "o", "t", " ", "o", "k">>)

\* Index of the dash that ends a match of  head \s+ \d+ \s* -  at the start of s,
\* 0 when s does not match.
RecordDash(s, head) ==
    IF ~LitAt(s, 1, head) THEN 0
    ELSE LET p1 == Len(head) + 1
             p2 == SkipSpace(s, p1)
             p3 == SkipDigits(s, p2)
             p4 == SkipSpace(s, p3)
         IN  IF p2 > p1 /\ p3 > p2 /\ p4 <= Len(s) /\ s[p4] = Dash THEN p4 ELSE 0

\* re.match(r'ok\s+\d+\s*-', s)
MatchOk(s) == RecordDash(s, OkHead) # 0

\* re.match(r'not ok\s+\d+\s*-', s)
MatchNotOk(s) == RecordDash(s, NotOkHead) # 0

\* m_notok = re.match(r'not ok\s+\d+\s*-\s*(\S+)', line): <<>> when there is no
\* match, <<group(1)>> otherwise.
m_notok(s) ==
    LET d == RecordDash(s, NotOkHead)
    IN  IF d = 0 THEN <<>>
        ELSE LET q == SkipSpace(s, d + 1)
             IN  IF q > Len(s) THEN <<>>
                 ELSE <<SubSeq(s, q, SkipNonSpace(s, q) - 1)>>

\* m_old = re.search(r'(\S+)\s*-\s*Test results:', line): <<>> when there is no
\* match, <<group(1)>> otherwise. The search takes the leftmost start, and from
\* it the longest \S+ after which the rest of the pattern matches.
m_old(s) ==
    LET Rest(e) == LET d == SkipSpace(s, e + 1)
                   IN  /\ d <= Len(s)
                       /\ s[d] = Dash
                       /\ LitAt(s, SkipSpace(s, d + 1), TestResults)
        cands == {se \in (1..Len(s)) \X (1..Len(s)) :
                     /\ se[1] <= se[2]
                     /\ \A k \in se[1]..se[2] : ~IsSpace(s[k])
                     /\ Rest(se[2])}
    IN  IF cands = {} THEN <<>>
        ELSE LET st == Min({se[1] : se \in cands})
                 en == Max({se[2] : se \in {c \in cands : c[1] = st}})
             IN  <<SubSeq(s, st, en)>>

\* line.split("- Test results:")[0]
BeforeMarker(s) ==
    SubSeq(s, 1, Min({k \in 1..Len(s) : LitAt(s, k, DashTestResults)}) - 1)

(***************************************************************************)
(* A Python dict is the sequence of its items in insertion order.          *)
(***************************************************************************)
Keys(d) == {d[k].key : k \in 1..Len(d)}

Get(d, key) == d[CHOOSE k \in 1..Len(d) : d[k].key = key].val

\* d[key] = val: an existing key keeps its place, a new one goes last.
Put(d, key, val) ==
    IF key \in Keys(d)
    THEN [k \in 1..Len(d) |-> IF d[k].key = key THEN [key |-> key, val |-> val] ELSE d[k]]
    ELSE Append(d, [key |-> key, val |-> val])

(***************************************************************************)
(* parse_log_sections, lines 95-127.                                       *)
(***************************************************************************)
\* Faulty variant of IsOpening: only a "- Test results:" line opens a suite.
IsOpening_markerOnly(line) == Contains(line, DashTestResults)

\* Lines 107-111: whether the stripped line opens a suite.
IsOpening(line) == Contains(line, DashTestResults) \/ m_notok(line) # <<>>

\* Lines 107-111: the suite name an opening line gives.
SuiteName(line) ==
    IF Contains(line, DashTestResults)
    THEN IF m_old(line) # <<>> THEN Strip(m_old(line)[1]) ELSE Strip(BeforeMarker(line))
    ELSE Strip(m_notok(line)[1])

\* Faulty variant of Commit: the lines are added to those already stored under the name.
Commit_merges(st) ==
    IF st.current_suite # <<>>
    THEN Put(st.sections, st.current_suite[1],
             (IF st.current_suite[1] \in Keys(st.sections)
              THEN Get(st.sections, st.current_suite[1]) ELSE <<>>) \o st.current_lines)
    ELSE st.sections

\* Lines 118-119 and 124-125: the open suite's lines are stored under its name.
Commit(st) ==
    IF st.current_suite # <<>>
    THEN Put(st.sections, st.current_suite[1], st.current_lines)
    ELSE st.sections

\* Faulty variant of ParseStep: a failure record opens its suite with an empty list.
ParseStep_dropsRecord(st, raw) ==
    LET line == Strip(raw)
    IN  IF IsOpening(line)
        THEN [current_suite |-> <<SuiteName(line)>>,
              current_lines |-> <<>>,
              sections |-> Commit(st)]
        ELSE IF st.current_suite # <<>>
             THEN [st EXCEPT !.current_lines = Append(st.current_lines, line)]
             ELSE st

\* Lines 101-122: one iteration of the loop, on the raw line.
ParseStep(st, raw) ==
    LET line == Strip(raw)
    IN  IF IsOpening(line)
        THEN [current_suite |-> <<SuiteName(line)>>,
              current_lines |-> IF m_notok(line) # <<>> THEN <<line>> ELSE <<>>,
              sections |-> Commit(st)]
        ELSE IF st.current_suite # <<>>
             THEN [st EXCEPT !.current_lines = Append(st.current_lines, line)]
             ELSE st

ParseStart == [current_suite |-> <<>>, current_lines |-> <<>>, sections |-> <<>>]

RECURSIVE ParseLoop(_, _)
ParseLoop(t, k) == IF k = 0 THEN ParseStart ELSE ParseStep(ParseLoop(t, k - 1), t[k])

\* The whole function: the dict returned for the text t.
parse_log_sections(t) == Commit(ParseLoop(t, Len(t)))

(***************************************************************************)
(* filter_ok_tests, lines 130-149.                                         *)
(***************************************************************************)
FilterStart == [filtered |-> <<>>, skip_mode |-> FALSE]

\* Faulty variant of FilterStep: a failure record is kept but leaves the flag as it is.
FilterStep_keepsSkipping(st, line) ==
    LET stripped == Strip(line)
    IN  IF MatchOk(stripped)
        THEN [st EXCEPT !.skip_mode = TRUE]
        ELSE IF MatchNotOk(stripped)
             THEN [st EXCEPT !.filtered = Append(st.filtered, line)]
             ELSE IF ~st.skip_mode
                  THEN [st EXCEPT !.filtered = Append(st.filtered, line)]
                  ELSE st

\* Lines 134-147: one iteration of the loop.
FilterStep(st, line) ==
    LET stripped == Strip(line)
    IN  IF MatchOk(stripped)
        THEN [st EXCEPT !.skip_mode = TRUE]
        ELSE IF MatchNotOk(stripped)
             THEN [filtered |-> Append(st.filtered, line), skip_mode |-> FALSE]
             ELSE IF ~st.skip_mode
                  THEN [st EXCEPT !.filtered = Append(st.filtered, line)]
                  ELSE st

RECURSIVE FilterLoop(_, _)
FilterLoop(ls, k) == IF k = 0 THEN FilterStart ELSE FilterStep(FilterLoop(ls, k - 1), ls[k])

\* Faulty variant of FilterRange: the loop stops one line short.
FilterRange_short(ls) == IF Len(ls) > 0 THEN Len(ls) - 1 ELSE 0

\* Line 134: the loop runs over every line of ls.
FilterRange(ls) == Len(ls)

\* The whole function.
filter_ok_tests(ls) == FilterLoop(ls, FilterRange(ls)).filtered

(***************************************************************************)
(* difflib.SequenceMatcher(None, a, b).ratio(), as used on line 178.       *)
(* Indices are Python's: a[i] of the code is a[i + 1] here, and a range    *)
(* alo..ahi excludes ahi. isjunk is None, so no character is junk; autojunk *)
(* is on, so in a b of 200 characters or more the popular ones start no    *)
(* match.                                                                  *)
(***************************************************************************)
\* The number of places of b that hold c.
Occurrences(b, c) == Cardinality({k \in 1..Len(b) : b[k] = c})

\* bpopular: when b has 200 characters or more, the characters that occur
\* more than len(b) // 100 + 1 times in it; they are taken out of b2j.
Popular(b) ==
    IF Len(b) >= 200
    THEN {c \in {b[k] : k \in 1..Len(b)} : Occurrences(b, c) > Len(b) \div 100 + 1}
    ELSE {}

\* Length of the longest common run of a from i and b from j within the
\* ranges, of characters that are not in pop.
RECURSIVE RunLen(_, _, _, _, _, _, _)
RunLen(a, b, i, j, ahi, bhi, pop) ==
    IF i < ahi /\ j < bhi /\ a[i + 1] = b[j + 1] /\ b[j + 1] \notin pop
    THEN 1 + RunLen(a, b, i + 1, j + 1, ahi, bhi, pop)
    ELSE 0

\* How far the block starting at a[i], b[j] extends to the left within the ranges.
RECURSIVE ExtendLeft(_, _, _, _, _, _)
ExtendLeft(a, b, i, j, alo, blo) ==
    IF i > alo /\ j > blo /\ a[i] = b[j]
    THEN 1 + ExtendLeft(a, b, i - 1, j - 1, alo, blo)
    ELSE 0

\* find_longest_match: the longest block a[i:i+k] = b[j:j+k] of characters of
\* b2j within the ranges; of the longest, the one starting earliest in a, and
\* of those, earliest in b (alo, blo and no character when there is none);
\* then extended to the left and to the right over every matching character.
FindLongestMatch(a, b, alo, ahi, blo, bhi) ==
    LET pop == Popular(b)
        starts == (alo..(ahi - 1)) \X (blo..(bhi - 1))
        run == [p \in starts |-> RunLen(a, b, p[1], p[2], ahi, bhi, pop)]
        k == IF starts = {} THEN 0 ELSE Max({run[p] : p \in starts})
        i == IF k = 0 THEN alo ELSE Min({p[1] : p \in {x \in starts : run[x] = k}})
        j == IF k = 0 THEN blo
             ELSE Min({p[2] : p \in {x \in starts : run[x] = k /\ x[1] = i}})
        left == ExtendLeft(a, b, i, j, alo, blo)
        right == RunLen(a, b, i + k, j + k, ahi, bhi, {})
    IN  <<i - left, j - left, left + k + right>>

\* get_matching_blocks: the number of characters matched, the longest block
\* first and then, recursively, what lies to its left and to its right.
RECURSIVE Matches(_, _, _, _, _, _)
Matches(a, b, alo, ahi, blo, bhi) ==
    LET m == FindLongestMatch(a, b, alo, ahi, blo, bhi)
    IN  IF m[3] = 0 THEN 0
        ELSE m[3]
             + (IF alo < m[1] /\ blo < m[2] THEN Matches(a, b, alo, m[1], blo, m[2]) ELSE 0)
             + (IF m[1] + m[3] < ahi /\ m[2] + m[3] < bhi
                THEN Matches(a, b, m[1] + m[3], ahi, m[2] + m[3], bhi) ELSE 0)

\* ratio() = 2.0 * matches / (len(a) + len(b)) as the fraction <<numerator, denominator>>;
\* 1.0 when both are empty.
Ratio(a, b) ==
    IF Len(a) + Len(b) = 0 THEN <<1, 1>>
    ELSE <<2 * Matches(a, b, 0, Len(a), 0, Len(b)), Len(a) + Len(b)>>

\* The ratio is a double: the quotient p / q (0 < p < q) rounded to 53
\* significant bits. The bits of p / q come by long division, rem being the
\* remainder before a bit: the bit is 1 when 2 * rem >= q.
\* The remainder before the first bit that is 1.
RECURSIVE LeadingRem(_, _)
LeadingRem(rem, q) == IF 2 * rem >= q THEN rem ELSE LeadingRem(2 * rem, q)

\* The remainder after n more bits.
RECURSIVE RemAfter(_, _, _)
RemAfter(rem, q, n) == IF n = 0 THEN rem ELSE RemAfter((2 * rem) % q, q, n - 1)

\* How the double of p / q lies to p / q: 0 when it is p / q exactly, 1 when
\* it is above (the bits after the 53rd are more than half a unit of the
\* 53rd; at exactly half, the 53rd bit is made even), -1 when it is below.
DoubleSide(p, q) ==
    LET r52 == RemAfter(LeadingRem(p, q), q, 52)
        bit53 == IF 2 * r52 >= q THEN 1 ELSE 0
        r53 == (2 * r52) % q
    IN  IF r53 = 0 THEN 0
        ELSE IF 2 * r53 > q \/ (2 * r53 = q /\ bit53 = 1) THEN 1
        ELSE -1

\* f"{ratio:.2f}": the double in hundredths, rounded to the nearest; when the
\* fraction lies halfway between two hundredths the double decides: to the
\* even hundredth when it is the fraction exactly, otherwise to its side.
Hundredths(r) ==
    LET q == (100 * r[1]) \div r[2]
        rem == (100 * r[1]) % r[2]
        up == IF 2 * rem # r[2] THEN 2 * rem > r[2]
              ELSE LET side == DoubleSide(r[1], r[2])
                   IN  side = 1 \/ (side = 0 /\ q % 2 = 1)
    IN  IF up THEN q + 1 ELSE q

\* The character of the digit n.
DigitChar(n) == Ord("0") + n

\* The text of f"{ratio:.2f}".
FormatRatio(r) ==
    LET h == Hundredths(r)
    IN  <<DigitChar(h \div 100), Ord("."), DigitChar((h \div 10) % 10), DigitChar(h % 10)>>

(***************************************************************************)
(* compare_sections, lines 152-183.                                        *)
(***************************************************************************)
threshold_main == 88

threshold_fallback == 85

difflib_cutoff == 87

\* Lines 153-154: [ln.strip() for ln in ls if ln.strip()]
RECURSIVE Clean(_)
Clean(ls) ==
    IF ls = <<>> THEN <<>>
    ELSE IF Strip(Head(ls)) = <<>> THEN Clean(Tail(ls))
         ELSE <<Strip(Head(ls))>> \o Clean(Tail(ls))

\* Line 156: the early return.
ReturnsEarly(olds, news) == olds = <<>> \/ news = <<>>

\* Faulty variant of EarlyResult: nothing is reported when there is nothing to compare.
EarlyResult_nothing(news) == <<>>

\* Line 157: return new_lines.copy()
EarlyResult(news) == news

\* Line 163: sims.max(dim=1) on one row: the best score.
RowMax(row) == Max({row[j] : j \in 1..Len(row)})

\* Line 163: the index of the best score, the first one among equals
\* (a Python index: 0 is the first old line).
RowArgMax(row) == Min({j \in 1..Len(row) : row[j] = RowMax(row)}) - 1

\* Line 181: f"{new_line} (difflib={ratio:.2f})"
Annotated(new_line, r) ==
    new_line \o Str(<<" ", "(", "d", "i", "f", "f", "l", "i", "b", "=">>) \o FormatRatio(r) \o Str(<<")">>)

\* Faulty variant of Decide: three disjoint ranges, the scores from threshold_fallback
\* up to threshold_main counting as matched.
Decide_threeWay(score, new_line, old_line) ==
    IF score < threshold_fallback
    THEN <<new_line>>
    ELSE IF score >= threshold_main
         THEN LET ratio == Ratio(new_line, old_line)
              IN  IF 100 * ratio[1] < difflib_cutoff * ratio[2]
                  THEN <<Annotated(new_line, ratio)>>
                  ELSE <<>>
         ELSE <<>>

\* Faulty variant of Decide: the textual check is left out.
Decide_noTextCheck(score, new_line, old_line) ==
    IF score < threshold_main THEN <<new_line>> ELSE <<>>

\* Lines 174-181: what one iteration appends to changes: nothing or one entry.
Decide(score, new_line, old_line) ==
    IF score < threshold_main
    THEN <<new_line>>
    ELSE IF score > threshold_fallback
         THEN LET ratio == Ratio(new_line, old_line)
              IN  IF 100 * ratio[1] < difflib_cutoff * ratio[2]
                  THEN <<Annotated(new_line, ratio)>>
                  ELSE <<>>
         ELSE <<>>

(***************************************************************************)
(* is_noise_change, lines 83-89, and the report of a suite, lines 250-260. *)
(* What is written is the sequence of the strings given to output.write.   *)
(***************************************************************************)
is_noise_change(line) ==
    LET l == Strip(line)
    IN  IF l = <<>> THEN TRUE
        ELSE IF Contains(l, TestMarker) THEN FALSE
        ELSE TRUE

\* Lines 250-251: the list comprehensions.
NoiseOf(cs) == SelectSeq(cs, LAMBDA c : is_noise_change(c))

RealOf(cs) == SelectSeq(cs, LAMBDA c : ~is_noise_change(c))

Newline == <<10>>

\* Line 254: "Real semantic changes:\n"
RealHeader == Str(<<"R", "e", "a", "l", " ", "s", "e", "m", "a", "n", "t", "i", "c", " ", "c", "h", "a", "n", "g", "e", "s", ":">>) \o Newline

\* Line 256: f"   - {c}\n"
RealItem(c) == Str(<<" ", " ", " ", "-", " ">>) \o c \o Newline

\* Line 258: "No meaningful test differences.\n"
NoDifferences == Str(<<"N", "o", " ", "m", "e", "a", "n", "i", "n", "g", "f", "u", "l", " ", "t", "e", "s", "t", " ", "d", "i", "f", "f", "e", "r", "e", "n", "c", "e", "s", ".">>) \o Newline

\* Faulty variant of Written: "No meaningful test differences." only when both lists
\* are empty.
Written_unlessAnyChange(nz, rl) ==
    (IF rl # <<>> \/ nz # <<>>
     THEN <<RealHeader>> \o [k \in 1..Len(rl) |-> RealItem(rl[k])]
     ELSE <<NoDifferences>>)
    \o <<Newline>>

\* Lines 253-260: the strings written for the suite after the comparison, the
\* empty line of line 260 last.
Written(nz, rl) ==
    (IF rl # <<>>
     THEN <<RealHeader>> \o [k \in 1..Len(rl) |-> RealItem(rl[k])]
     ELSE <<NoDifferences>>)
    \o <<Newline>>

(***************************************************************************)
(* Inputs.                                                                 *)
(***************************************************************************)
SeqsUpTo(S, n) == UNION {[1..k -> S] : k \in 0..n}

\* Lines of a TAP text: a section header, failure records (one with a name of
\* two words with a tab between, one without a name, one that also holds the
\* header marker), a passing record, free text with a tab before and a blank
\* after, a header without a name.
ParsePool ==
    { Str(<<"a", " ", "-", " ", "T", "e", "s", "t", " ", "r", "e", "s", "u", "l", "t", "s", ":">>),
      Str(<<"n", "o", "t", " ", "o", "k", " ", "1", " ", "-", " ", "a">>),
      Str(<<"n", "o", "t", " ", "o", "k", " ", "2", " ", "-", " ", "b", "\t", "c">>),
      Str(<<"o", "k", " ", "3", " ", "-", " ", "c">>),
      Str(<<"\t", "x", " ">>),
      Str(<<"n", "o", "t", " ", "o", "k", " ", "4", " ", "-">>),
      Str(<<"n", "o", "t", " ", "o", "k", " ", "5", " ", "-", " ", "T", "e", "s", "t", " ", "r", "e", "s", "u", "l", "t", "s", ":">>),
      Str(<<"-", " ", "T", "e", "s", "t", " ", "r", "e", "s", "u", "l", "t", "s", ":">>) }

\* Lines given to the filter: passing records (one after a tab, with tabs for
\* \s and the Arabic-Indic digit three, 1635, for \d), failure records (one
\* indented and without a name), free text, a blank line, "ok 5" (no dash).
FilterPool ==
    { Str(<<"o", "k", " ", "1", " ", "-", " ", "a">>),
      Str(<<"\t", "o", "k", "\t">>) \o <<1635>> \o Str(<<"\t", "-", " ", "b">>),
      Str(<<"n", "o", "t", " ", "o", "k", " ", "3", " ", "-", " ", "c">>),
      Str(<<" ", "n", "o", "t", " ", "o", "k", " ", "4", " ", "-">>),
      Str(<<"n", "o", "t", "e">>),
      Str(<<" ">>),
      Str(<<"o", "k", " ", "5">>) }

\* Baseline lines of a suite: a line of numbers that repeat, a line with the
\* "TEST:" marker, a blank line.
OldPool ==
    { Str(<<"5", " ", "5", " ", "5", " ", "7", " ", "7">>),
      Str(<<"T", "E", "S", "T", ":", " ", "n", " ", "5">>),
      Str(<<" ">>) }

\* Current lines of a suite: the baseline's, and each with one of its numbers
\* changed (one of them after a tab).
NewPool ==
    { Str(<<"5", " ", "5", " ", "5", " ", "7", " ", "7">>),
      Str(<<"\t", "5", " ", "5", " ", "7", " ", "7", " ", "7">>),
      Str(<<"T", "E", "S", "T", ":", " ", "n", " ", "5">>),
      Str(<<"T", "E", "S", "T", ":", " ", "n", " ", "7">>) }

\* Scores the similarity oracle may give, in hundredths.
Scores == {86, 88, 100}

\* Lines 159-163: the rows util.cos_sim may give for new_line against olds.
\* The embedding of a text is a function of the text: a line scores 1.0
\* against an identical line, and the same against two identical old lines;
\* every other score is the oracle's choice.
Rows(new_line, olds) ==
    {row \in [1..Len(olds) -> Scores] :
        \A j \in 1..Len(olds) :
            /\ olds[j] = new_line => row[j] = 100
            /\ \A k \in 1..Len(olds) : olds[j] = olds[k] => row[j] = row[k]}

(***************************************************************************)
(* Initial states.                                                         *)
(***************************************************************************)
ParseIdle ==
    /\ text = <<>> /\ pos = 1
    /\ current_suite = <<>> /\ current_lines = <<>>
    /\ sections = <<>> /\ new_sections = <<>>

FilterIdle ==
    /\ lines = <<>> /\ fpos = 1 /\ skip_mode = FALSE
    /\ filtered = <<>> /\ refiltered = <<>>

CompareIdle ==
    /\ old_arg = <<>> /\ new_arg = <<>>
    /\ old_lines = <<>> /\ new_lines = <<>>
    /\ max_scores = <<>> /\ max_indices = <<>>
    /\ changes = <<>> /\ encode_calls = 0
    /\ noise = <<>> /\ real = <<>> /\ output = <<>>

\* Line 221: parse_log_sections is entered with a text.
InitParse ==
    /\ pc = "parse"
    /\ text \in SeqsUpTo(ParsePool, MaxText)
    /\ pos = 1
    /\ current_suite = ParseStart.current_suite
    /\ current_lines = ParseStart.current_lines
    /\ sections = ParseStart.sections
    /\ new_sections = <<>>
    /\ FilterIdle /\ CompareIdle

\* filter_ok_tests is entered with a list of lines.
InitFilter ==
    /\ pc = "filter"
    /\ lines \in SeqsUpTo(FilterPool, MaxLines)
    /\ fpos = 1
    /\ skip_mode = FilterStart.skip_mode
    /\ filtered = FilterStart.filtered
    /\ refiltered = <<>>
    /\ ParseIdle /\ CompareIdle

\* Line 248: compare_sections is entered with the lines of a matched suite.
InitCompare ==
    /\ pc = "compare"
    /\ old_arg \in SeqsUpTo(OldPool, MaxOld)
    /\ new_arg \in SeqsUpTo(NewPool, MaxNew)
    /\ old_lines = <<>> /\ new_lines = <<>>
    /\ max_scores = <<>> /\ max_indices = <<>>
    /\ changes = <<>> /\ encode_calls = 0
    /\ noise = <<>> /\ real = <<>> /\ output = <<>>
    /\ ParseIdle /\ FilterIdle

(***************************************************************************)
(* parse_log_sections and lines 221-223 of the main workflow.              *)
(***************************************************************************)
\* Lines 101-122: one iteration of the loop.
ParseLine ==
    /\ pc = "parse"
    /\ pos <= Len(text)
    /\ LET st == ParseStep([current_suite |-> current_suite,
                            current_lines |-> current_lines,
                            sections |-> sections], text[pos])
       IN  /\ current_suite' = st.current_suite
           /\ current_lines' = st.current_lines
           /\ sections' = st.sections
    /\ pos' = pos + 1
    /\ UNCHANGED <<pc, text, new_sections, filterVars, compareVars>>

\* Lines 124-127: the last open suite is stored and the dict returned.
ParseReturn ==
    /\ pc = "parse"
    /\ pos > Len(text)
    /\ sections' = Commit([current_suite |-> current_suite,
                           current_lines |-> current_lines,
                           sections |-> sections])
    /\ pc' = "parsed"
    /\ UNCHANGED <<text, pos, current_suite, current_lines, new_sections,
                   filterVars, compareVars>>

\* Line 222: {s: filter_ok_tests(l) for s, l in new_sections.items()}
FilterSections ==
    /\ pc = "parsed"
    /\ new_sections' = [k \in 1..Len(sections) |->
                           [key |-> sections[k].key, val |-> filter_ok_tests(sections[k].val)]]
    /\ pc' = "sections_filtered"
    /\ UNCHANGED <<text, pos, current_suite, current_lines, sections,
                   filterVars, compareVars>>

\* Line 223: {s: l for s, l in new_sections.items() if l}
DropEmpty ==
    /\ pc = "sections_filtered"
    /\ new_sections' = SelectSeq(new_sections, LAMBDA it : it.val # <<>>)
    /\ pc' = "sections_kept"
    /\ UNCHANGED <<text, pos, current_suite, current_lines, sections,
                   filterVars, compareVars>>

(***************************************************************************)
(* filter_ok_tests.                                                        *)
(***************************************************************************)
\* Lines 134-147: one iteration of the loop.
FilterLine ==
    /\ pc = "filter"
    /\ fpos <= FilterRange(lines)
    /\ LET st == FilterStep([filtered |-> filtered, skip_mode |-> skip_mode], lines[fpos])
       IN  /\ filtered' = st.filtered
           /\ skip_mode' = st.skip_mode
    /\ fpos' = fpos + 1
    /\ UNCHANGED <<pc, lines, refiltered, parseVars, compareVars>>

\* Line 149: the list is returned.
FilterReturn ==
    /\ pc = "filter"
    /\ fpos > FilterRange(lines)
    /\ pc' = "filter_returned"
    /\ UNCHANGED <<lines, fpos, skip_mode, filtered, refiltered, parseVars, compareVars>>

\* The function is applied to the list it returned.
FilterAgain ==
    /\ pc = "filter_returned"
    /\ refiltered' = filter_ok_tests(filtered)
    /\ pc' = "filter_twice"
    /\ UNCHANGED <<lines, fpos, skip_mode, filtered, parseVars, compareVars>>

(***************************************************************************)
(* compare_sections and lines 250-260 of the main workflow.                *)
(***************************************************************************)
\* Lines 153-160: the lists are cleaned; an empty side returns a copy of the
\* new lines, otherwise both sides are encoded.
CompareEnter ==
    /\ pc = "compare"
    /\ old_lines' = Clean(old_arg)
    /\ new_lines' = Clean(new_arg)
    /\ IF ReturnsEarly(Clean(old_arg), Clean(new_arg))
       THEN /\ changes' = EarlyResult(Clean(new_arg))
            /\ encode_calls' = encode_calls
            /\ pc' = "compare_returned"
       ELSE /\ changes' = <<>>
            /\ encode_calls' = encode_calls + 2
            /\ pc' = "compare_loop"
    /\ UNCHANGED <<old_arg, new_arg, max_scores, max_indices, noise, real, output,
                   parseVars, filterVars>>

\* Lines 170-181: one iteration of the loop. The row of the similarity matrix
\* of the line read is drawn here: rows are independent inputs of the loop,
\* but for identical new lines, whose rows are the same.
CompareLine ==
    /\ pc = "compare_loop"
    /\ Len(max_scores) < Len(new_lines)
    /\ LET i == Len(max_scores) + 1
       IN  \E row \in Rows(new_lines[i], old_lines) :
              /\ \A j \in 1..(i - 1) :
                    new_lines[j] = new_lines[i] =>
                        RowMax(row) = max_scores[j] /\ RowArgMax(row) = max_indices[j]
              /\ max_scores' = Append(max_scores, RowMax(row))
              /\ max_indices' = Append(max_indices, RowArgMax(row))
              /\ changes' = changes \o Decide(RowMax(row), new_lines[i],
                                              old_lines[RowArgMax(row) + 1])
    /\ UNCHANGED <<pc, old_arg, new_arg, old_lines, new_lines, encode_calls,
                   noise, real, output, parseVars, filterVars>>

\* Line 183: the change list is returned.
CompareReturn ==
    /\ pc = "compare_loop"
    /\ Len(max_scores) = Len(new_lines)
    /\ pc' = "compare_returned"
    /\ UNCHANGED <<compareVars, parseVars, filterVars>>

\* Lines 250-260: the changes are classified and the suite is reported: the
\* strings written by lines 254-260 are appended to the output.
Report ==
    /\ pc = "compare_returned"
    /\ noise' = NoiseOf(changes)
    /\ real' = RealOf(changes)
    /\ output' = output \o Written(NoiseOf(changes), RealOf(changes))
    /\ pc' = "reported"
    /\ UNCHANGED <<old_arg, new_arg, old_lines, new_lines, max_scores, max_indices,
                   changes, encode_calls, parseVars, filterVars>>

(***************************************************************************)
(* Specifications.                                                         *)
(***************************************************************************)
NextParse == ParseLine \/ ParseReturn \/ FilterSections \/ DropEmpty

NextFilter == FilterLine \/ FilterReturn \/ FilterAgain

NextCompare == CompareEnter \/ CompareLine \/ CompareReturn \/ Report

SpecParse == InitParse /\ [][NextParse]_vars

SpecFilter == InitFilter /\ [][NextFilter]_vars

SpecCompare == InitCompare /\ [][NextCompare]_vars

Init == InitParse \/ InitFilter \/ InitCompare

Next == NextParse \/ NextFilter \/ NextCompare

Spec == Init /\ [][Next]_vars

(***************************************************************************)
(* Properties of filter_ok_tests (SpecFilter).                             *)
(***************************************************************************)
\* The three kinds of line the filter tells apart (lines 135-141).
IsPassRecord(l) == MatchOk(Strip(l))

IsFailureRecord(l) == MatchNotOk(Strip(l))

IsFreeText(l) == ~IsPassRecord(l) /\ ~IsFailureRecord(l)

\* The filter has just read line fpos and appended it to the list.
KeepsCurrent == filtered' = Append(filtered, lines[fpos])

\* One iteration of the filter's loop is being taken, on line fpos.
FilterReads == pc = "filter" /\ fpos <= Len(lines)

\* A passing record was read before line p with no failure record between it and p.
PassSinceFailure(p) ==
    \E q \in 1..(p - 1) :
        /\ IsPassRecord(lines[q])
        /\ \A r \in (q + 1)..(p - 1) : ~IsFailureRecord(lines[r])

\* C4: filter_ok_tests is idempotent: applied to the list it returned, it
\* returns that list again.
C4_FilterIdempotent == pc = "filter_twice" => refiltered = filtered

\* C4 witness: the first pass dropped lines and kept others, and the second
\* pass has run.
C4_Witness ==
    /\ pc = "filter_twice"
    /\ filtered # <<>>
    /\ Len(filtered) < Len(lines)
    /\ \E p \in 1..Len(lines) : IsPassRecord(lines[p])

\* C5 as stated: every failure record is kept, and so is every free-text line
\* right before or right after a failure record.
C5_KeepsAroundFailures ==
    [][FilterReads =>
          /\ IsFailureRecord(lines[fpos]) => KeepsCurrent
          /\ ( /\ IsFreeText(lines[fpos])
               /\ \/ fpos > 1 /\ IsFailureRecord(lines[fpos - 1])
                  \/ fpos < Len(lines) /\ IsFailureRecord(lines[fpos + 1]) )
             => KeepsCurrent]_vars

\* C5 amended: every failure record is kept, and every free-text line right
\* after a failure record; a free-text line right before a failure record is
\* kept exactly when no passing record was read since the last failure record
\* (or the start) before it, and is dropped otherwise.
C5_KeepsFailuresAndWhatFollows ==
    [][FilterReads =>
          /\ IsFailureRecord(lines[fpos]) => KeepsCurrent
          /\ (IsFreeText(lines[fpos]) /\ fpos > 1 /\ IsFailureRecord(lines[fpos - 1]))
             => KeepsCurrent
          /\ (IsFreeText(lines[fpos]) /\ fpos < Len(lines) /\ IsFailureRecord(lines[fpos + 1]))
             => IF PassSinceFailure(fpos) THEN filtered' = filtered ELSE KeepsCurrent]_vars

\* C5 witness: a failure record between passing records, with free text right
\* before it (dropped) and right after it (kept), has been filtered.
C5_Witness ==
    /\ pc = "filter_returned"
    /\ \E p \in 3..(Len(lines) - 1) :
          /\ IsPassRecord(lines[p - 2])
          /\ IsFreeText(lines[p - 1])
          /\ IsFailureRecord(lines[p])
          /\ IsFreeText(lines[p + 1])
          /\ filtered = <<lines[p], lines[p + 1]>>

(***************************************************************************)
(* Properties of parse_log_sections and of parse then filter (SpecParse).  *)
(***************************************************************************)
\* Line p of the text as the parser reads it.
LineAt(p) == Strip(text[p])

\* The positions of the lines that open a suite.
Openers == {p \in 1..Len(text) : IsOpening(LineAt(p))}

\* The suite name the opening line at o gives.
KeyAt(o) == SuiteName(LineAt(o))

\* The lines read while the suite opened at o is open, in input order.
NonOpeningAfter(o) ==
    LET next == Min({q \in Openers : q > o} \cup {Len(text) + 1})
    IN  [k \in 1..(next - o - 1) |-> LineAt(o + k)]

\* No later line of the text opens the suite name opened at o.
IsLastOpening(o) == \A q \in Openers : q > o => KeyAt(q) # KeyAt(o)

\* A stored list without the failure record that opened it.
Body(ls) == IF ls # <<>> /\ IsOpening(ls[1]) THEN Tail(ls) ELSE ls

\* A line of the form 'not ok N - name'.
IsNamedFailure(l) == m_notok(l) # <<>>

\* Everything that follows the dash of a failure record, trimmed.
NameAfterDash(l) ==
    Strip(SubSeq(l, RecordDash(l, NotOkHead) + 1, Len(l)))

\* The first whitespace-delimited token that follows the dash.
FirstTokenAfterDash(l) ==
    SubSeq(NameAfterDash(l), 1, SkipNonSpace(NameAfterDash(l), 1) - 1)

\* C6 as stated: for every line 'not ok N - name' of the text, the returned
\* mapping has a suite keyed by the name after the dash (read as the code's
\* pattern reads it: up to the first whitespace), and the line is the first
\* element of that suite's list.
C6_RecordHeadsItsSuite ==
    pc = "parsed" =>
        \A p \in 1..Len(text) :
            IsNamedFailure(LineAt(p)) =>
                /\ FirstTokenAfterDash(LineAt(p)) \in Keys(sections)
                /\ Get(sections, FirstTokenAfterDash(LineAt(p))) # <<>>
                /\ Get(sections, FirstTokenAfterDash(LineAt(p)))[1] = LineAt(p)

\* C6 amended: for every line 'not ok N - name' that does not also hold the
\* marker "- Test results:", the suite it opens is keyed by the first
\* whitespace-delimited token after the dash, and the line is the first (and
\* only) element of the list of the suite just opened; in the returned mapping
\* it is the first element of that suite's list unless a later line opens the
\* same suite name again.
C6_KeyedByFirstToken ==
    /\ (pc = "parse" /\ pos > 1 /\ IsNamedFailure(LineAt(pos - 1))
        /\ ~Contains(LineAt(pos - 1), DashTestResults))
       => /\ current_suite = <<FirstTokenAfterDash(LineAt(pos - 1))>>
          /\ current_lines = <<LineAt(pos - 1)>>
    /\ pc = "parsed" =>
          \A p \in 1..Len(text) :
              (IsNamedFailure(LineAt(p)) /\ ~Contains(LineAt(p), DashTestResults)) =>
                  /\ FirstTokenAfterDash(LineAt(p)) \in Keys(sections)
                  /\ IsLastOpening(p) =>
                        /\ Get(sections, FirstTokenAfterDash(LineAt(p))) # <<>>
                        /\ Get(sections, FirstTokenAfterDash(LineAt(p)))[1] = LineAt(p)

\* C6 witness: a failure record whose name has two words was parsed; its suite
\* is keyed by the first word and starts with the record.
C6_Witness ==
    /\ pc = "parsed"
    /\ \E p \in 1..Len(text) :
          /\ IsNamedFailure(LineAt(p))
          /\ NameAfterDash(LineAt(p)) # FirstTokenAfterDash(LineAt(p))
          /\ FirstTokenAfterDash(LineAt(p)) \in Keys(sections)
          /\ Get(sections, FirstTokenAfterDash(LineAt(p))) # <<>>
          /\ Get(sections, FirstTokenAfterDash(LineAt(p)))[1] = LineAt(p)

\* The number of lines stored in the dict d, the opening records aside.
RECURSIVE StoredBodies(_)
StoredBodies(d) ==
    IF d = <<>> THEN 0 ELSE Len(Body(Head(d).val)) + StoredBodies(Tail(d))

\* The positions of the non-opening lines read while some suite is open.
NonOpeningRead ==
    {p \in 1..Len(text) : ~IsOpening(LineAt(p)) /\ \E o \in Openers : o < p}

\* C8 as stated: every non-opening line read after the first opening line is
\* in the list of the suite that was open when it was read, in input order,
\* and in no other list, also when a suite name is opened more than once.
C8_EveryLineInItsSuite ==
    pc = "parsed" =>
        /\ \A o \in Openers :
              /\ KeyAt(o) \in Keys(sections)
              /\ Body(Get(sections, KeyAt(o))) = NonOpeningAfter(o)
        /\ StoredBodies(sections) = Cardinality(NonOpeningRead)

\* C8 amended: the returned mapping has one suite for each suite name opened;
\* the non-opening lines read under the last opening of a name are that
\* suite's list (after the failure record that opened it, if any), trimmed and
\* in input order; the lines read under an earlier opening of a name opened
\* again are replaced and are in no suite of the returned mapping.
C8_LastOpeningWins ==
    pc = "parsed" =>
        /\ Keys(sections) = {KeyAt(o) : o \in Openers}
        /\ Len(sections) = Cardinality(Keys(sections))
        /\ \A o \in Openers :
              IsLastOpening(o) => Body(Get(sections, KeyAt(o))) = NonOpeningAfter(o)

\* C8 witness: a suite name was opened twice, with a non-opening line read
\* under the first opening, and the dict has been returned.
C8_Witness ==
    /\ pc = "parsed"
    /\ \E o1 \in Openers : \E o2 \in Openers :
          /\ o1 < o2
          /\ KeyAt(o1) = KeyAt(o2)
          /\ NonOpeningAfter(o1) # <<>>
          /\ IsLastOpening(o2)
          /\ Body(Get(sections, KeyAt(o2))) = NonOpeningAfter(o2)

\* Index of the first passing record of a stored list, 0 when it has none.
FirstPass(val) ==
    IF \E i \in 1..Len(val) : MatchOk(Strip(val[i]))
    THEN Min({i \in 1..Len(val) : MatchOk(Strip(val[i]))})
    ELSE 0

\* C10 as stated: in a parsed section a line matching the parser's failure
\* pattern occurs at the first place only, and from the first passing record
\* of the section on, the filter drops every line.
C10_AllDroppedAfterPass ==
    pc = "sections_filtered" =>
        \A k \in 1..Len(sections) :
            LET val == sections[k].val
            IN  /\ \A idx \in 2..Len(val) : m_notok(val[idx]) = <<>>
                /\ FirstPass(val) # 0 =>
                      new_sections[k].val = SubSeq(val, 1, FirstPass(val) - 1)

\* C10 amended: in a parsed section a line matching the parser's failure
\* pattern occurs at the first place only; from the first passing record on
\* the filter drops every line, unless a later line is a failure record
\* without a name ("not ok N -"): that line matches the filter's pattern but
\* not the parser's, stays in the section, is kept and resets the flag.
C10_DroppedUnlessNamelessFailure ==
    pc = "sections_filtered" =>
        \A k \in 1..Len(sections) :
            LET val == sections[k].val
                i == FirstPass(val)
                later == {j \in (i + 1)..Len(val) : MatchNotOk(Strip(val[j]))}
            IN  /\ \A idx \in 2..Len(val) : m_notok(val[idx]) = <<>>
                /\ new_sections[k].key = sections[k].key
                /\ (i # 0 /\ later = {}) => new_sections[k].val = SubSeq(val, 1, i - 1)
                /\ (i # 0 /\ later # {}) =>
                      /\ Len(new_sections[k].val) >= i
                      /\ SubSeq(new_sections[k].val, 1, i) =
                            Append(SubSeq(val, 1, i - 1), val[Min(later)])

\* C10 witness: a section that starts with a failure record, then holds a
\* passing record and a line after it, has been filtered down to its start.
C10_Witness ==
    /\ pc = "sections_filtered"
    /\ \E k \in 1..Len(sections) :
          /\ FirstPass(sections[k].val) >= 2
          /\ Len(sections[k].val) > FirstPass(sections[k].val)
          /\ new_sections[k].val = SubSeq(sections[k].val, 1, FirstPass(sections[k].val) - 1)

(***************************************************************************)
(* Properties of compare_sections and of the report (SpecCompare).         *)
(***************************************************************************)
\* The loop of compare_sections reads one more line in this step.
CompareReads == pc = "compare_loop" /\ Len(max_scores') = Len(max_scores) + 1

\* The textual ratio of a against b is below difflib_cutoff.
RatioBelowCutoff(a, b) == 100 * Ratio(a, b)[1] < difflib_cutoff * Ratio(a, b)[2]

\* The old line picked for new line i: the first of its best-scoring ones.
BestOld(i) == old_lines[max_indices[i] + 1]

\* C1 as stated: with the default thresholds, a line whose best score lies
\* between threshold_fallback and threshold_main is treated as matched: the
\* iteration that reads it leaves the change list as it is.
C1_DeadZoneMatched ==
    [][(CompareReads
        /\ threshold_fallback < max_scores'[Len(max_scores')]
        /\ max_scores'[Len(max_scores')] < threshold_main)
       => changes' = changes]_vars

\* C1 amended: with the default thresholds no score is in neither branch: a
\* line whose best score is below threshold_main, the scores between
\* threshold_fallback and threshold_main included, is reported as changed,
\* without annotation; a line is treated as matched only when its best score
\* is at least threshold_main and its textual ratio against the best old
\* line is at least difflib_cutoff.
C1_BelowMainReported ==
    [][CompareReads =>
          LET i == Len(max_scores')
              s == max_scores'[i]
          IN  /\ s < threshold_main => changes' = Append(changes, new_lines[i])
              /\ changes' = changes =>
                    /\ s >= threshold_main
                    /\ ~RatioBelowCutoff(new_lines[i], old_lines[max_indices'[i] + 1])]_vars

\* C1 witness: a line whose best score lies between the two thresholds has
\* been read, and it is in the change list.
C1_Witness ==
    /\ pc = "compare_returned"
    /\ Len(new_lines) = 1
    /\ Len(max_scores) = 1
    /\ threshold_fallback < max_scores[1]
    /\ max_scores[1] < threshold_main
    /\ changes = <<new_lines[1]>>

\* Every line of ls is trimmed and not empty.
AllTrimmed(ls) == \A k \in 1..Len(ls) : ls[k] # <<>> /\ Strip(ls[k]) = ls[k]

\* C2 as stated: compare_sections(X, X) returns the empty list for every
\* non-empty list X of trimmed, non-empty lines and every oracle that scores a
\* line 1.0 against itself.
C2_IdenticalInputsNoChanges ==
    (pc = "compare_returned" /\ old_arg = new_arg /\ new_arg # <<>> /\ AllTrimmed(new_arg))
    => changes = <<>>

\* One space-delimited token of one character, a digit, differs between o and
\* n, and nothing else.
DiffersByOneNumber(o, n) ==
    /\ Len(o) = Len(n)
    /\ \E k \in 1..Len(o) :
          /\ IsDigit(o[k]) /\ IsDigit(n[k]) /\ o[k] # n[k]
          /\ k = 1 \/ IsSpace(o[k - 1])
          /\ k = Len(o) \/ IsSpace(o[k + 1])
          /\ \A j \in 1..Len(o) : j # k => o[j] = n[j]

\* The current lines are the baseline lines but for one number of line c,
\* and the oracle rates line c's best old line at threshold_main or more.
OneNumberChanged(c) ==
    /\ Len(old_lines) = Len(new_lines)
    /\ c \in 1..Len(new_lines)
    /\ DiffersByOneNumber(old_lines[c], new_lines[c])
    /\ \A j \in 1..Len(new_lines) : j # c => old_lines[j] = new_lines[j]
    /\ Len(max_scores) = Len(new_lines)
    /\ max_scores[c] >= threshold_main

\* What the textual check reports for new line i, annotated.
TextualEntry(i) ==
    IF RatioBelowCutoff(new_lines[i], BestOld(i))
    THEN <<Annotated(new_lines[i], Ratio(new_lines[i], BestOld(i)))>>
    ELSE <<>>

RECURSIVE TextualEntries(_)
TextualEntries(n) == IF n = 0 THEN <<>> ELSE TextualEntries(n - 1) \o TextualEntry(n)

\* C3 as stated: when one number of one line is changed and the oracle rates
\* that line similar enough, the change list holds that line (plain or
\* annotated) and nothing else, whatever the length of the line.
C3_ChangedLineSurfaced ==
    pc = "compare_returned" =>
        \A c \in 1..Len(new_lines) :
            OneNumberChanged(c) =>
                /\ Len(changes) = 1
                /\ \/ changes[1] = new_lines[c]
                   \/ changes[1] = Annotated(new_lines[c], Ratio(new_lines[c], BestOld(c)))

\* C3 amended: when one number of one line is changed and the oracle rates
\* that line similar enough, every current line goes through the textual
\* check against its best old line (the first among equals) and is reported,
\* annotated with the ratio, exactly when difflib's ratio of the two is below
\* difflib_cutoff. So, when the changed line is rated best against the line it
\* was changed from and every unchanged line against itself, the list is the
\* changed line, annotated, if the ratio of the changed line against the line
\* it was changed from is below 0.87, and is empty otherwise; the ratio is
\* difflib's, which depends on what the line holds and not on its length alone.
C3_SurfacedWhenRatioBelowCutoff ==
    pc = "compare_returned" =>
        \A c \in 1..Len(new_lines) :
            OneNumberChanged(c) =>
                /\ changes = TextualEntries(Len(new_lines))
                /\ ( /\ BestOld(c) = old_lines[c]
                     /\ \A j \in 1..Len(new_lines) : j # c => BestOld(j) = new_lines[j] )
                   => changes = IF RatioBelowCutoff(new_lines[c], old_lines[c])
                                THEN <<Annotated(new_lines[c],
                                                 Ratio(new_lines[c], old_lines[c]))>>
                                ELSE <<>>

\* C3 witness: of two lines the number of one, a line of nine characters, was
\* changed, the oracle rated it similar enough against the line it was changed
\* from, and the change list is that line, annotated.
C3_Witness ==
    /\ pc = "compare_returned"
    /\ Len(new_lines) = 2
    /\ \E c \in 1..2 :
          /\ OneNumberChanged(c)
          /\ Len(new_lines[c]) >= 9
          /\ BestOld(c) = old_lines[c]
          /\ changes = <<Annotated(new_lines[c], Ratio(new_lines[c], old_lines[c]))>>

\* C9: when either cleaned side is empty, the cleaned current lines are the
\* change list, in order and without annotation, and the oracle is not
\* consulted; with an empty baseline and a current list of trimmed non-empty
\* lines the change list is the current list itself.
C9_EmptySideReturnsCurrent ==
    /\ (pc # "compare" /\ (old_lines = <<>> \/ new_lines = <<>>))
       => /\ changes = new_lines
          /\ encode_calls = 0
          /\ max_scores = <<>>
    /\ (pc # "compare" /\ old_arg = <<>> /\ AllTrimmed(new_arg)) => changes = new_arg

\* C9 witness: compare_sections returned for an empty baseline and two
\* trimmed current lines, which are the change list.
C9_Witness ==
    /\ pc = "compare_returned"
    /\ old_arg = <<>>
    /\ Len(new_arg) = 2
    /\ AllTrimmed(new_arg)
    /\ changes = new_arg
    /\ encode_calls = 0

\* The lines written under "Real semantic changes:".
WrittenLines ==
    LET items == SelectSeq(output, LAMBDA w : LitAt(w, 1, Str(<<" ", " ", " ", "-", " ">>)))
    IN  [k \in 1..Len(items) |-> SubSeq(items[k], 6, Len(items[k]) - 1)]

\* "No meaningful test differences." was written.
NoDifferencesWritten ==
    \E k \in 1..Len(output) : output[k] = NoDifferences

\* Real and Noise split the change list by the "TEST:" marker, in order.
SplitByMarker ==
    /\ real = SelectSeq(changes, LAMBDA c : Contains(c, TestMarker))
    /\ noise = SelectSeq(changes, LAMBDA c : ~Contains(c, TestMarker))

\* C7 as stated: what is produced for a matched suite carries the Real and
\* the Noise lines, and "no meaningful differences" only when both are empty.
C7_RealAndNoiseCarried ==
    pc = "reported" =>
        /\ SplitByMarker
        /\ \A k \in 1..Len(real) : \E w \in 1..Len(WrittenLines) : WrittenLines[w] = real[k]
        /\ \A k \in 1..Len(noise) : \E w \in 1..Len(WrittenLines) : WrittenLines[w] = noise[k]
        /\ NoDifferencesWritten => (real = <<>> /\ noise = <<>>)

\* C7 amended: Real and Noise split the change list by classify; what is
\* produced for a matched suite carries the Real lines only, in order (the
\* Noise lines are computed and never written), and "No meaningful test
\* differences." is written exactly when the Real list is empty, whatever
\* the Noise list holds.
C7_OnlyRealCarried ==
    pc = "reported" =>
        /\ SplitByMarker
        /\ WrittenLines = real
        /\ NoDifferencesWritten <=> real = <<>>

\* C7 witness: a suite was reported whose changes are all noise: none is
\* written and "No meaningful test differences." is.
C7_Witness ==
    /\ pc = "reported"
    /\ noise # <<>>
    /\ real = <<>>
    /\ WrittenLines = <<>>
    /\ NoDifferencesWritten

====
